---- MODULE Spec2Model ----
(***************************************************************************)
(* Model of exclude.go: the Exclude configuration (a map from absolute     *)
(* glob pattern to reason), its loader (LoadFromFile / UnmarshalJSON) and  *)
(* its query (Excluded).                                                   *)
(*                                                                         *)
(* Strings are sequences of one-character strings.  The path/filepath      *)
(* functions the code calls (Glob, Abs, Match) are modelled by what they   *)
(* compute on Unix: Match and its helpers follow the chunk scanner of the  *)
(* standard matcher, Abs follows IsAbs/Getwd/Join/Clean, and Glob is       *)
(* modelled by its error contract (ErrBadPattern exactly when the pattern  *)
(* is malformed, established by the matcher on the empty name; file system *)
(* errors are ignored).                                                    *)
(***************************************************************************)
EXTENDS Integers, Sequences, FiniteSets, TLC

VARIABLES
    e,          \* *e: the receiver's map, absolute pattern -> reason
    allocated,  \* *e # nil (a nil map is the state before any load)
    wd,         \* the process's working directory, or NoWd when Getwd fails
    op,         \* the last call: "none", "Load" or "Excluded"
    was,        \* whether *e was non-nil when the last Load was called
    b,          \* the file given to the last Load
    order,      \* the order in which the last Load ranged over the decoded map
    err,        \* the error the last Load returned
    path,       \* the path given to the last Excluded
    result,     \* the outcome of the last Excluded: "true", "false", "panic"
    rpc,        \* per reader: "idle", "ranging" or "done"
    rpath,      \* per reader: the path of its Excluded call
    rrest,      \* per reader: the patterns its range loop has yet to visit
    rres        \* per reader: the outcome of its finished call

vars == <<e, allocated, wd, op, was, b, order, err, path, result, rpc, rpath, rrest, rres>>

(***************************************************************************)
(* Bounds and input universes.                                             *)
(***************************************************************************)
MaxKeys == 2        \* most keys in one configuration object

\* Concurrent callers of Excluded.
Readers == {"reader1", "reader2"}

Separator == "/"

\* Code points of the characters used (ASCII).
Code ==
    ("*" :> 42) @@ ("-" :> 45) @@ ("." :> 46) @@ ("/" :> 47) @@ ("?" :> 63) @@
    ("[" :> 91) @@ ("\\" :> 92) @@ ("]" :> 93) @@ ("^" :> 94) @@ ("a" :> 97) @@
    ("b" :> 98) @@ ("q" :> 113) @@ ("r" :> 114)

\* Keys a configuration may hold.
RawPatterns ==
    { <<"a">>,                          \* relative literal
      <<"/", "r", "/", "a", "/">>,      \* absolute, trailing separator
      <<"*">>,                          \* relative wildcard
      <<"[">>,                          \* unterminated character class
      <<"*", "\\", "/">> }              \* escaped separator at the end

\* Values a configuration may hold: a JSON string or the JSON null.
JNull == <<"null">>

JString(str) == <<"string", str>>

Values == {JString("r1"), JNull}

\* Paths a caller may query.
Paths ==
    { <<"/", "r", "/", "a">>,
      <<"/", "r", "/", "b">>,
      <<"/", "q", "/", "a">> }

\* Working directories; NoWd stands for a failing os.Getwd.
NoWd == <<>>
WorkDirs == { <<"/", "r">>, <<"/", "q">> }

EmptyMap == <<>>

NoErr == [kind |-> "nil", pattern |-> <<>>]

(***************************************************************************)
(* Sequence helpers (Go slicing).                                          *)
(***************************************************************************)
Drop(s, n) == SubSeq(s, n + 1, Len(s))

Take(s, n) == SubSeq(s, 1, n)

Contains(s, c) == \E i \in 1..Len(s) : s[i] = c

RECURSIVE Orders(_)
Orders(S) ==
    IF S = {} THEN {<<>>}
    ELSE UNION {{<<x>> \o o : o \in Orders(S \ {x})} : x \in S}

(***************************************************************************)
(* filepath.Match (Unix).                                                  *)
(***************************************************************************)
RECURSIVE SkipStars(_)
SkipStars(p) == IF Len(p) > 0 /\ p[1] = "*" THEN SkipStars(Tail(p)) ELSE p

RECURSIVE ScanEnd(_, _, _)
ScanEnd(p, i, inrange) ==
    IF i >= Len(p) THEN i
    ELSE LET c == p[i + 1] IN
         CASE c = "\\" -> ScanEnd(p, (IF i + 1 < Len(p) THEN i + 1 ELSE i) + 1, inrange)
           [] c = "["  -> ScanEnd(p, i + 1, TRUE)
           [] c = "]"  -> ScanEnd(p, i + 1, FALSE)
           [] c = "*"  -> IF inrange THEN ScanEnd(p, i + 1, inrange) ELSE i
           [] OTHER    -> ScanEnd(p, i + 1, inrange)

scanChunk(pattern) ==
    LET p == SkipStars(pattern)
        i == ScanEnd(p, 0, FALSE)
    IN  [star |-> Len(p) < Len(pattern), chunk |-> Take(p, i), rest |-> Drop(p, i)]

EscErr == [r |-> 0, nchunk |-> <<>>, err |-> TRUE]

getEsc(chunk) ==
    IF Len(chunk) = 0 \/ chunk[1] = "-" \/ chunk[1] = "]" THEN EscErr
    ELSE LET c1 == IF chunk[1] = "\\" THEN Tail(chunk) ELSE chunk IN
         IF Len(c1) = 0 THEN EscErr
         ELSE [r |-> Code[c1[1]], nchunk |-> Tail(c1), err |-> Len(c1) = 1]

RangesErr == [chunk |-> <<>>, match |-> FALSE, err |-> TRUE]

RECURSIVE ParseRanges(_, _, _, _)
ParseRanges(chunk, r, match, nrange) ==
    IF Len(chunk) > 0 /\ chunk[1] = "]" /\ nrange > 0
    THEN [chunk |-> Tail(chunk), match |-> match, err |-> FALSE]
    ELSE LET lo == getEsc(chunk) IN
         IF lo.err THEN RangesErr
         ELSE LET hi == IF lo.nchunk[1] = "-" THEN getEsc(Tail(lo.nchunk)) ELSE lo IN
              IF hi.err THEN RangesErr
              ELSE ParseRanges(hi.nchunk, r, match \/ (lo.r <= r /\ r <= hi.r), nrange + 1)

ChunkErr == [rest |-> <<>>, ok |-> FALSE, err |-> TRUE]

RECURSIVE ChunkLoop(_, _, _)
\* after the ranges of a character class have been parsed (pr)
ClassDone(pr, s1, failed, negated) ==
    IF pr.err THEN ChunkErr
    ELSE ChunkLoop(pr.chunk, s1, failed \/ (pr.match = negated))

ChunkLoop(chunk, s, failed0) ==
    IF Len(chunk) = 0
    THEN IF failed0 THEN [rest |-> <<>>, ok |-> FALSE, err |-> FALSE]
                    ELSE [rest |-> s, ok |-> TRUE, err |-> FALSE]
    ELSE LET failed == failed0 \/ Len(s) = 0
             s1 == IF failed THEN s ELSE Tail(s)
         IN
         CASE chunk[1] = "[" ->
                LET r == IF failed THEN 0 ELSE Code[s[1]]
                    c1 == Tail(chunk)
                    negated == Len(c1) > 0 /\ c1[1] = "^"
                    c2 == IF negated THEN Tail(c1) ELSE c1
                IN  ClassDone(ParseRanges(c2, r, FALSE, 0), s1, failed, negated)
           [] chunk[1] = "?" ->
                ChunkLoop(Tail(chunk), s1, failed \/ s[1] = Separator)
           [] chunk[1] = "\\" ->
                LET c1 == Tail(chunk) IN
                IF Len(c1) = 0 THEN ChunkErr
                ELSE ChunkLoop(Tail(c1), s1, failed \/ c1[1] # s[1])
           [] OTHER ->
                ChunkLoop(Tail(chunk), s1, failed \/ chunk[1] # s[1])

matchChunk(chunk, s) == ChunkLoop(chunk, s, FALSE)

RECURSIVE StarSkip(_, _, _, _)
\* m: the chunk matched after skipping i+1 bytes of name
Skipped(chunk, rest, name, i, m) ==
    IF m.ok
    THEN IF Len(rest) = 0 /\ Len(m.rest) > 0
         THEN StarSkip(chunk, rest, name, i + 1)
         ELSE [found |-> TRUE, rest |-> m.rest, err |-> FALSE]
    ELSE IF m.err THEN [found |-> FALSE, rest |-> <<>>, err |-> TRUE]
    ELSE StarSkip(chunk, rest, name, i + 1)

StarSkip(chunk, rest, name, i) ==
    IF ~(i < Len(name) /\ name[i + 1] # Separator)
    THEN [found |-> FALSE, rest |-> <<>>, err |-> FALSE]
    ELSE Skipped(chunk, rest, name, i, matchChunk(chunk, Drop(name, i + 1)))

RECURSIVE RemainderBad(_)
RemainderBad(pattern) ==
    IF Len(pattern) = 0 THEN FALSE
    ELSE LET sc == scanChunk(pattern) IN
         matchChunk(sc.chunk, <<>>).err \/ RemainderBad(sc.rest)

MatchErr == [matched |-> FALSE, err |-> TRUE]

RECURSIVE Match(_, _)
\* no match: the rest of the pattern is still checked for syntax
MatchFailed(rest) ==
    IF RemainderBad(rest) THEN MatchErr ELSE [matched |-> FALSE, err |-> FALSE]

\* sk: the outcome of looking for the chunk further along the name
MatchSkipped(sc, sk) ==
    IF sk.found THEN Match(sc.rest, sk.rest)
    ELSE IF sk.err THEN MatchErr
    ELSE MatchFailed(sc.rest)

\* m: the chunk matched at the current position
MatchChunked(sc, name, m) ==
    IF m.ok /\ (Len(m.rest) = 0 \/ Len(sc.rest) > 0) THEN Match(sc.rest, m.rest)
    ELSE IF m.err THEN MatchErr
    ELSE IF sc.star THEN MatchSkipped(sc, StarSkip(sc.chunk, sc.rest, name, 0))
    ELSE MatchFailed(sc.rest)

\* sc: the next chunk of the pattern
MatchScanned(sc, name) ==
    IF sc.star /\ sc.chunk = <<>>
    THEN [matched |-> ~Contains(name, Separator), err |-> FALSE]
    ELSE MatchChunked(sc, name, matchChunk(sc.chunk, name))

Match(pattern, name) ==
    IF Len(pattern) = 0 THEN [matched |-> Len(name) = 0, err |-> FALSE]
    ELSE MatchScanned(scanChunk(pattern), name)

(***************************************************************************)
(* filepath.Glob: only its error is used.                                  *)
(***************************************************************************)
\* Variant: the probe reports nothing (no file name reaches the malformed part).
GlobUnchecked(pattern) == FALSE

GlobErr(pattern) == Match(pattern, <<>>).err

\* Glob's error for every key a configuration may hold, tabulated once.
GlobMemo == [p \in RawPatterns |-> GlobErr(p)] @@ <<>>

(***************************************************************************)
(* filepath.Abs (Unix): IsAbs, Getwd, Join, Clean.                         *)
(***************************************************************************)
IsAbs(p) == Len(p) > 0 /\ p[1] = Separator

RECURSIVE Backtrack(_, _, _)
Backtrack(buf, w, dotdot) ==
    IF w > dotdot /\ buf[w + 1] # Separator THEN Backtrack(buf, w - 1, dotdot) ELSE w

RECURSIVE ElementEnd(_, _)
ElementEnd(p, r) == IF r < Len(p) /\ p[r + 1] # Separator THEN ElementEnd(p, r + 1) ELSE r

RECURSIVE CleanLoop(_, _, _, _, _)
CleanLoop(p, r, out, dotdot, rooted) ==
    LET n == Len(p) IN
    IF r >= n THEN out
    ELSE CASE p[r + 1] = Separator ->
                CleanLoop(p, r + 1, out, dotdot, rooted)
           [] p[r + 1] = "." /\ (r + 1 = n \/ p[r + 2] = Separator) ->
                CleanLoop(p, r + 1, out, dotdot, rooted)
           [] p[r + 1] = "." /\ p[r + 2] = "." /\ (r + 2 = n \/ p[r + 3] = Separator) ->
                IF Len(out) > dotdot
                THEN CleanLoop(p, r + 2, Take(out, Backtrack(out, Len(out) - 1, dotdot)), dotdot, rooted)
                ELSE IF ~rooted
                THEN LET o1 == (IF Len(out) > 0 THEN Append(out, Separator) ELSE out) \o <<".", ".">>
                     IN  CleanLoop(p, r + 2, o1, Len(o1), rooted)
                ELSE CleanLoop(p, r + 2, out, dotdot, rooted)
           [] OTHER ->
                LET o1 == IF (rooted /\ Len(out) # 1) \/ (~rooted /\ Len(out) # 0)
                          THEN Append(out, Separator) ELSE out
                    r1 == ElementEnd(p, r)
                IN  CleanLoop(p, r1, o1 \o SubSeq(p, r + 1, r1), dotdot, rooted)

Dot(out) == IF Len(out) = 0 THEN <<".">> ELSE out

Clean(p) ==
    IF Len(p) = 0 THEN <<".">>
    ELSE IF p[1] = Separator THEN Dot(CleanLoop(p, 1, <<Separator>>, 1, TRUE))
    ELSE Dot(CleanLoop(p, 0, <<>>, 0, FALSE))

Join(dir, p) ==
    IF dir # <<>> THEN Clean(dir \o <<Separator>> \o p)
    ELSE IF p # <<>> THEN Clean(p)
    ELSE <<>>

\* Variant: a relative path is cleaned but not joined to the working directory.
AbsUnjoined(p, cwd) == [path |-> Clean(p), err |-> FALSE]

\* [path, err]: err is Getwd's failure, reached only for a relative path.
Abs(p, cwd) ==
    IF IsAbs(p) THEN [path |-> Clean(p), err |-> FALSE]
    ELSE IF cwd = NoWd THEN [path |-> <<>>, err |-> TRUE]
    ELSE [path |-> Join(cwd, p), err |-> FALSE]

\* Abs for every key and working directory, tabulated once.
AbsMemo == [x \in RawPatterns \X (WorkDirs \cup {NoWd}) |-> Abs(x[1], x[2])] @@ <<>>

\* Every key Abs can produce, and Match of each against every path, tabulated once.
AbsKeys == {AbsMemo[x].path : x \in DOMAIN AbsMemo}

MatchMemo == [x \in AbsKeys \X Paths |-> Match(x[1], x[2])] @@ <<>>

(***************************************************************************)
(* The files LoadFromFile may be given.  A readable file holds bytes of    *)
(* one of these shapes; an object is given by its members (the decoder     *)
(* keeps the last of several members with one key, so members are a        *)
(* function of the key).                                                   *)
(***************************************************************************)
KeySets == {ks \in SUBSET RawPatterns : Cardinality(ks) <= MaxKeys}

Objects == UNION {[ks -> Values] : ks \in KeySets}

Shape(kind) == [kind |-> kind, members |-> EmptyMap]

Files ==
    { Shape("unreadable"),      \* ioutil.ReadFile fails
      Shape("syntax"),          \* not JSON
      Shape("null"),            \* the JSON null
      Shape("nonobject"),       \* a JSON array, number, string or boolean
      Shape("badvalue") }       \* an object with a number, boolean, array or object value
    \cup {[kind |-> "object", members |-> o] : o \in Objects}

(***************************************************************************)
(* json.Unmarshal(b, &m) for m of type map[string]string.                  *)
(***************************************************************************)
Decode(bytes) ==
    CASE bytes.kind \in {"syntax", "nonobject", "badvalue"} ->
            [err |-> TRUE, m |-> EmptyMap]
      [] bytes.kind = "null" ->
            [err |-> FALSE, m |-> EmptyMap]
      [] OTHER ->
            [err |-> FALSE,
             m |-> [k \in DOMAIN bytes.members |->
                        IF bytes.members[k] = JNull THEN "" ELSE bytes.members[k][2]]]

(***************************************************************************)
(* UnmarshalJSON.                                                          *)
(***************************************************************************)
\* Variant: an entry already present is kept.
StoreKeepFirst(acc, absPattern, reason) == acc @@ (absPattern :> reason)

\* (*e)[absPattern] = m[pattern]
Store(acc, absPattern, reason) == (absPattern :> reason) @@ acc

\* for pattern := range m { ... }, visiting the keys in the order ord
RECURSIVE RangeLoad(_, _, _, _)
\* abs: the outcome of filepath.Abs(pattern)
Resolved(m, ord, acc, cwd, abs) ==
    IF abs.err
    THEN [e |-> acc,
          err |-> [kind |-> "unable to get absolute pattern", pattern |-> Head(ord)]]
    ELSE RangeLoad(m, Tail(ord), Store(acc, abs.path, m[Head(ord)]), cwd)

RangeLoad(m, ord, acc, cwd) ==
    IF ord = <<>> THEN [e |-> acc, err |-> NoErr]
    ELSE IF GlobMemo[Head(ord)]
    THEN [e |-> acc, err |-> [kind |-> "invalid pattern", pattern |-> Head(ord)]]
    ELSE Resolved(m, ord, acc, cwd, AbsMemo[<<Head(ord), cwd>>])

Made(l) == [e |-> l.e, allocated |-> TRUE, err |-> l.err]

\* Variant: the receiver is reset before the bytes are decoded.
UnmarshalJSONMakeFirst(recv, bytes, ord, cwd) ==
    IF Decode(bytes).err
    THEN [e |-> EmptyMap, allocated |-> TRUE, err |-> [kind |-> "json", pattern |-> <<>>]]
    ELSE Made(RangeLoad(Decode(bytes).m, ord, EmptyMap, cwd))

\* Variant: the receiver is not reset; entries are added to the map it holds.
UnmarshalJSONNoMake(recv, bytes, ord, cwd) ==
    IF Decode(bytes).err
    THEN [e |-> recv.e, allocated |-> recv.allocated,
          err |-> [kind |-> "json", pattern |-> <<>>]]
    ELSE Made(RangeLoad(Decode(bytes).m, ord, recv.e, cwd))

\* recv is the receiver before the call: [e, allocated]
UnmarshalJSON(recv, bytes, ord, cwd) ==
    IF Decode(bytes).err
    THEN [e |-> recv.e, allocated |-> recv.allocated,
          err |-> [kind |-> "json", pattern |-> <<>>]]
    ELSE Made(RangeLoad(Decode(bytes).m, ord, EmptyMap, cwd))

(***************************************************************************)
(* Excluded.                                                               *)
(***************************************************************************)
\* One iteration of the range loop: "panic", "true" or "next".
Outcome(m) == IF m.err THEN "panic" ELSE IF m.matched THEN "true" ELSE "next"

Visit(pattern, p) == Outcome(MatchMemo[<<pattern, p>>])

RECURSIVE RangeMatch(_, _)
Visited(ord, p, v) == IF v = "next" THEN RangeMatch(Tail(ord), p) ELSE v

RangeMatch(ord, p) ==
    IF ord = <<>> THEN "false" ELSE Visited(ord, p, Visit(Head(ord), p))

(***************************************************************************)
(* The state machine: one caller owning the Exclude value.                 *)
(***************************************************************************)
Idle == [r \in Readers |-> "idle"]

NoPath == [r \in Readers |-> <<>>]

NoResult == [r \in Readers |-> "none"]

readerVars == <<rpc, rpath, rrest, rres>>

\* A panic that nothing recovers ends the process.
Running == result # "panic" /\ \A r \in Readers : rres[r] # "panic"

Init ==
    /\ e = EmptyMap
    /\ allocated = FALSE
    /\ wd \in WorkDirs \cup {NoWd}
    /\ op = "none"
    /\ was = FALSE
    /\ b = Shape("none")
    /\ order = <<>>
    /\ err = NoErr
    /\ path = <<>>
    /\ result = "none"
    /\ rpc = Idle
    /\ rpath = NoPath
    /\ rrest = NoPath
    /\ rres = NoResult

\* u: what UnmarshalJSON left in the receiver and returned
Returned(u) ==
    /\ e' = u.e
    /\ allocated' = u.allocated
    /\ err' = u.err

LoadFromFile(file) ==
    /\ Running
    /\ op' = "Load"
    /\ was' = allocated
    /\ b' = file
    /\ path' = <<>>
    /\ result' = "none"
    /\ IF file.kind = "unreadable"
       THEN /\ err' = [kind |-> "read", pattern |-> <<>>]
            /\ order' = <<>>
            /\ UNCHANGED <<e, allocated>>
       ELSE \E ord \in Orders(DOMAIN Decode(file).m) :
                /\ Returned(UnmarshalJSON([e |-> e, allocated |-> allocated], file, ord, wd))
                /\ order' = ord
    /\ UNCHANGED <<wd, readerVars>>

Excluded(p) ==
    /\ Running
    /\ op' = "Excluded"
    /\ was' = FALSE
    /\ path' = p
    /\ \E ord \in Orders(DOMAIN e) : result' = RangeMatch(ord, p)
    /\ b' = Shape("none")
    /\ order' = <<>>
    /\ err' = NoErr
    /\ UNCHANGED <<e, allocated, wd, readerVars>>

Next ==
    \/ \E file \in Files : LoadFromFile(file)
    \/ \E p \in Paths : Excluded(p)

Spec == Init /\ [][Next]_vars

(***************************************************************************)
(* Concurrent readers of a loaded value: each Excluded call is a range     *)
(* loop whose iterations interleave with those of the other callers.  No   *)
(* Load runs meanwhile (the value has a single owner and no mutator after  *)
(* the load).                                                              *)
(***************************************************************************)
\* The maps a successful load of a fresh value can leave, per working directory.
Fresh == [e |-> EmptyMap, allocated |-> FALSE]

LoadedMaps(cwd) ==
    UNION { { UnmarshalJSON(Fresh, file, ord, cwd).e :
                ord \in { o \in Orders(DOMAIN Decode(file).m) :
                            UnmarshalJSON(Fresh, file, o, cwd).err = NoErr } } :
            file \in Files \ {Shape("unreadable")} }

InitReaders ==
    /\ wd \in WorkDirs \cup {NoWd}
    /\ e \in LoadedMaps(wd)
    /\ allocated = TRUE
    /\ op = "none"
    /\ was = FALSE
    /\ b = Shape("none")
    /\ order = <<>>
    /\ err = NoErr
    /\ path = <<>>
    /\ result = "none"
    /\ rpc = Idle
    /\ rpath = NoPath
    /\ rrest = NoPath
    /\ rres = NoResult

callVars == <<op, was, b, order, err, path, result>>

\* func (e *Exclude) Excluded(path string) bool: the range loop starts
ReaderCall(r, p) ==
    /\ Running
    /\ rpc[r] = "idle"
    /\ \E ord \in Orders(DOMAIN e) : rrest' = [rrest EXCEPT ![r] = ord]
    /\ rpc' = [rpc EXCEPT ![r] = "ranging"]
    /\ rpath' = [rpath EXCEPT ![r] = p]
    /\ UNCHANGED <<e, allocated, wd, callVars, rres>>

\* the loop ends: return false
ReaderExhaust(r) ==
    /\ Running
    /\ rpc[r] = "ranging"
    /\ rrest[r] = <<>>
    /\ rpc' = [rpc EXCEPT ![r] = "done"]
    /\ rres' = [rres EXCEPT ![r] = "false"]
    /\ UNCHANGED <<e, allocated, wd, callVars, rpath, rrest>>

\* Variant: an iteration that finds no match drops the pattern from the map.
ReaderVisitDeleting(r) ==
    /\ Running
    /\ rpc[r] = "ranging"
    /\ rrest[r] # <<>>
    /\ IF Visit(Head(rrest[r]), rpath[r]) = "next"
       THEN /\ rrest' = [rrest EXCEPT ![r] = Tail(rrest[r])]
            /\ e' = [k \in DOMAIN e \ {Head(rrest[r])} |-> e[k]]
            /\ UNCHANGED <<rpc, rres>>
       ELSE /\ rpc' = [rpc EXCEPT ![r] = "done"]
            /\ rres' = [rres EXCEPT ![r] = Visit(Head(rrest[r]), rpath[r])]
            /\ rrest' = [rrest EXCEPT ![r] = <<>>]
            /\ e' = e
    /\ UNCHANGED <<allocated, wd, callVars, rpath>>

\* one iteration: filepath.Match, then panic, return true, or go on
ReaderVisit(r) ==
    /\ Running
    /\ rpc[r] = "ranging"
    /\ rrest[r] # <<>>
    /\ IF Visit(Head(rrest[r]), rpath[r]) = "next"
       THEN /\ rrest' = [rrest EXCEPT ![r] = Tail(rrest[r])]
            /\ UNCHANGED <<rpc, rres>>
       ELSE /\ rpc' = [rpc EXCEPT ![r] = "done"]
            /\ rres' = [rres EXCEPT ![r] = Visit(Head(rrest[r]), rpath[r])]
            /\ rrest' = [rrest EXCEPT ![r] = <<>>]
    /\ UNCHANGED <<e, allocated, wd, callVars, rpath>>

\* the caller takes the result and may call again
ReaderReturn(r) ==
    /\ Running
    /\ rpc[r] = "done"
    /\ rpc' = [rpc EXCEPT ![r] = "idle"]
    /\ rpath' = [rpath EXCEPT ![r] = <<>>]
    /\ rres' = [rres EXCEPT ![r] = "none"]
    /\ UNCHANGED <<e, allocated, wd, callVars, rrest>>

NextReaders ==
    \/ \E r \in Readers, p \in Paths : ReaderCall(r, p)
    \/ \E r \in Readers : ReaderExhaust(r)
    \/ \E r \in Readers : ReaderVisit(r)
    \/ \E r \in Readers : ReaderReturn(r)

SpecReaders == InitReaders /\ [][NextReaders]_vars

(***************************************************************************)
(* Vocabulary of the properties.                                           *)
(***************************************************************************)
\* The last call was a Load that read its file.
IsLoad == op = "Load" /\ b.kind # "unreadable"

\* ... and returned nil.
Loaded == IsLoad /\ err = NoErr

\* The keys of the configuration object given to the last Load.
RawKeys == DOMAIN b.members

\* The reason the configuration gives for a key ("" for a JSON null).
RawReason(k) == IF b.members[k] = JNull THEN "" ELSE b.members[k][2]

\* Position of a key in the order the last Load ranged over.
Pos(k) == CHOOSE i \in 1..Len(order) : order[i] = k

\* Glob syntax, stated as a grammar: outside a class a backslash escapes one
\* character; a class is '[', an optional '^', one or more ranges and ']';
\* a range is an item or item '-' item; an item is an escaped character or a
\* character other than '-' and ']'.
ItemLen(q) ==
    IF q = <<>> \/ q[1] \in {"-", "]"} THEN 0
    ELSE IF q[1] = "\\" THEN (IF Len(q) >= 2 THEN 2 ELSE 0)
    ELSE 1

RangeLen(q) ==
    LET lo == ItemLen(q)
        hi == ItemLen(Drop(q, lo + 1))
    IN  IF lo = 0 THEN 0
        ELSE IF Len(q) > lo /\ q[lo + 1] = "-" THEN (IF hi = 0 THEN 0 ELSE lo + 1 + hi)
        ELSE lo

RECURSIVE WellFormed(_)
RECURSIVE ClassWellFormed(_, _)
ClassWellFormed(q, nranges) ==
    IF q = <<>> THEN FALSE
    ELSE IF q[1] = "]" /\ nranges > 0 THEN WellFormed(Tail(q))
    ELSE RangeLen(q) > 0 /\ ClassWellFormed(Drop(q, RangeLen(q)), nranges + 1)

WellFormed(q) ==
    IF q = <<>> THEN TRUE
    ELSE IF q[1] = "\\" THEN Len(q) >= 2 /\ WellFormed(Drop(q, 2))
    ELSE IF q[1] = "["
    THEN ClassWellFormed(IF Len(q) >= 2 /\ q[2] = "^" THEN Drop(q, 2) ELSE Tail(q), 0)
    ELSE WellFormed(Tail(q))

\* Lexical normal form of a rooted path, stated on its elements: empty and "."
\* elements are dropped, ".." drops the element before it (none at the root),
\* and the rest are joined by single separators after the root.
RECURSIVE Elements(_, _)
Elements(q, cur) ==
    IF q = <<>> THEN <<cur>>
    ELSE IF q[1] = Separator THEN <<cur>> \o Elements(Tail(q), <<>>)
    ELSE Elements(Tail(q), Append(cur, q[1]))

RECURSIVE Kept(_, _)
Kept(els, stack) ==
    IF els = <<>> THEN stack
    ELSE IF Head(els) = <<>> \/ Head(els) = <<".">> THEN Kept(Tail(els), stack)
    ELSE IF Head(els) = <<".", ".">>
    THEN Kept(Tail(els), IF stack = <<>> THEN stack ELSE Take(stack, Len(stack) - 1))
    ELSE Kept(Tail(els), Append(stack, Head(els)))

RECURSIVE Rooted(_)
Rooted(stack) ==
    IF stack = <<>> THEN <<>>
    ELSE <<Separator>> \o Head(stack) \o Rooted(Tail(stack))

Normal(q) ==
    LET stack == Kept(Elements(q, <<>>), <<>>) IN
    IF stack = <<>> THEN <<Separator>> ELSE Rooted(stack)

\* The rooted path a key stands for under the working directory.
Located(k) == IF IsAbs(k) THEN k ELSE wd \o <<Separator>> \o k

\* Every outcome Excluded(p) can have on the map m, over the iteration orders.
Outcomes(m, p) == {RangeMatch(o, p) : o \in Orders(DOMAIN m)}

\* The keys of the last configuration with malformed glob syntax.
Malformed == {k \in RawKeys : ~WellFormed(k)}

\* The key Abs gives a raw key under the working directory.
AbsKey(k) == Abs(k, wd).path

\* Two distinct raw keys that resolve to one absolute pattern.
Collide(k, j) == k # j /\ ~Abs(k, wd).err /\ ~Abs(j, wd).err /\ AbsKey(k) = AbsKey(j)

\* Among the raw keys resolving to the same absolute pattern as k, the one
\* the load visited last.
Latest(k) ==
    CHOOSE j \in RawKeys :
        /\ AbsKey(j) = AbsKey(k)
        /\ \A i \in RawKeys : AbsKey(i) = AbsKey(k) => Pos(i) <= Pos(j)

\* A file that is not JSON or not an object of string to string.
NotStringMap(f) ==
    \/ f.kind \in {"syntax", "null", "nonobject", "badvalue"}
    \/ \E k \in DOMAIN f.members : f.members[k] = JNull

(***************************************************************************)
(* Properties.                                                             *)
(***************************************************************************)

C3_NoPartialLoad ==
    (IsLoad /\ err.kind \in {"invalid pattern", "unable to get absolute pattern"}) =>
        \A k \in RawKeys : Pos(k) < Pos(err.pattern) => AbsKey(k) \notin DOMAIN e

\* C4 (as stated): after a successful Load an absolute raw pattern is a key
\* character for character, and a relative one is a key joined to the working
\* directory.
C4_StoredAsIs ==
    Loaded => \A k \in RawKeys : (IF IsAbs(k) THEN k ELSE Join(wd, k)) \in DOMAIN e

\* C4 (amended): after a successful Load the keys are exactly the lexically
\* normalised forms of the raw patterns (relative ones first prefixed with the
\* working directory): repeated and trailing separators and "." elements are
\* dropped and ".." elements resolved; a key no other raw pattern resolves to
\* carries its own reason; the relative pattern a loaded alone under /r
\* excludes /r/a and not /q/a.
C4_KeysStoredCleaned ==
    Loaded =>
        /\ DOMAIN e = {Normal(Located(k)) : k \in RawKeys}
        /\ \A k \in RawKeys :
              (\A j \in RawKeys : Normal(Located(j)) = Normal(Located(k)) => j = k)
                  => e[Normal(Located(k))] = RawReason(k)
        /\ (wd = <<"/", "r">> /\ RawKeys = {<<"a">>}) =>
              /\ Outcomes(e, <<"/", "r", "/", "a">>) = {"true"}
              /\ Outcomes(e, <<"/", "q", "/", "a">>) = {"false"}

\* C4 witness: a successful Load of an absolute pattern that is stored under
\* another spelling, together with a relative pattern.
C4_Witness ==
    /\ Loaded
    /\ \E k \in RawKeys : IsAbs(k) /\ k \notin DOMAIN e /\ Normal(k) \in DOMAIN e
    /\ \E j \in RawKeys : ~IsAbs(j)

C6_RejectsAllNonStringMaps ==
    [][(op' = "Load" /\ NotStringMap(b')) =>
          (err'.kind = "json" /\ e' = e /\ allocated' = allocated)]_vars

\* C6 (amended): a Load of bytes that are not JSON, of a non-null non-object,
\* or of an object with a value that is neither a string nor null fails with
\* the decoding error and leaves the receiver as it was; the JSON null loads
\* without error as the empty set, and an object whose values are strings or
\* nulls is not rejected by the decoder (a null value gives the empty reason).
C6_MalformedConfigLeavesReceiver ==
    [][op' = "Load" =>
          /\ b'.kind \in {"syntax", "nonobject", "badvalue"} =>
                (err'.kind = "json" /\ e' = e /\ allocated' = allocated)
          /\ b'.kind = "null" => (err' = NoErr /\ allocated' /\ e' = EmptyMap)
          /\ b'.kind = "object" =>
                /\ err'.kind # "json"
                /\ (err' = NoErr /\ Cardinality(DOMAIN b'.members) = 1) =>
                      \A k \in DOMAIN b'.members :
                          b'.members[k] = JNull => e'[Abs(k, wd).path] = ""]_vars

\* C6 witness: bytes that are not JSON were given to a set that held entries,
\* and the Load failed with the decoding error.
C6_Witness ==
    /\ op = "Load"
    /\ b.kind = "syntax"
    /\ err.kind = "json"
    /\ was
    /\ e # EmptyMap

\* C7: however the iterations of concurrent Excluded calls interleave, no step
\* changes the map, and a call that finishes has an outcome the same call has
\* when run alone on that map; the value a call returns is determined by the
\* map and the path.
C7_ReadersDoNotInterfere ==
    [][/\ e' = e
       /\ allocated' = allocated
       /\ \A r \in Readers :
             rpc'[r] = "done" =>
                 /\ rres'[r] \in Outcomes(e, rpath'[r])
                 /\ ~({"true", "false"} \subseteq Outcomes(e, rpath'[r]))]_vars

\* C7 witness: one reader has finished a call while another is in the middle
\* of its loop for the same path.
C7_Witness ==
    \E r1, r2 \in Readers :
        /\ r1 # r2
        /\ rpc[r1] = "ranging"
        /\ rrest[r1] # <<>>
        /\ Len(rrest[r1]) < Cardinality(DOMAIN e)
        /\ rpc[r2] = "done"
        /\ rpath[r1] = rpath[r2]

C9_LoadReplaces ==
    [][/\ allocated => allocated'
       /\ (op' = "Load" /\ b'.kind # "unreadable" /\ err' = NoErr) =>
             /\ allocated'
             /\ DOMAIN e' = {Abs(k, wd).path : k \in DOMAIN b'.members}
             /\ \A key \in DOMAIN e' :
                   \E k \in DOMAIN b'.members :
                       /\ Abs(k, wd).path = key
                       /\ e'[key] = (IF b'.members[k] = JNull THEN ""
                                     ELSE b'.members[k][2])]_vars

\* C9 witness: a successful Load into a set that was already loaded.
C9_Witness ==
    /\ Loaded
    /\ was
    /\ e # EmptyMap

\* C10: when two distinct raw patterns of one input resolve to the same
\* absolute pattern, the collision does not make Load fail, and after the Load
\* the map has one entry per absolute pattern whose reason is that of the raw
\* pattern visited last.
C10_LaterCollisionWins ==
    (IsLoad /\ b.kind = "object" /\ \E k, j \in RawKeys : Collide(k, j)) =>
        /\ (Malformed = {} /\ \A k \in RawKeys : ~Abs(k, wd).err) => err = NoErr
        /\ err = NoErr =>
              /\ Cardinality(DOMAIN e) < Cardinality(RawKeys)
              /\ \A k \in RawKeys : e[AbsKey(k)] = RawReason(Latest(k))

\* C10 witness: a successful Load of two colliding patterns with different
\* reasons.
C10_Witness ==
    /\ Loaded
    /\ \E k, j \in RawKeys : Collide(k, j) /\ RawReason(k) # RawReason(j)

====
